---------------------------- MODULE Spec2Model ----------------------------
(***************************************************************************)
(* Model of pyannote.database custom protocols (custom.py) and of the      *)
(* FileFinder (util.py).                                                    *)
(*                                                                         *)
(*   Spec          subset_iter: one run of a generated {subset}_iter       *)
(*                 generator and accesses to the records it yields         *)
(*   SpecResolve   resolve_path: one call                                  *)
(*   SpecCreate    create_protocol: one call                               *)
(*   SpecRegister  add_custom_protocols: one run, one loop pass per step   *)
(*   SpecFinder    FileFinder.__call__: one call with a single uri         *)
(*   SpecMeta      meta_subset_iter: one run of a {subset}_iter generator  *)
(*                 of the database "X"                                     *)
(***************************************************************************)
EXTENDS Naturals, Sequences, FiniteSets

(***************************************************************************)
(* Bounds                                                                  *)
(***************************************************************************)
\* longest identifier list file, in characters
MaxContent == 2
\* largest number of entries declared for one subset
MaxFields == 2
\* largest number of subsets declared for one protocol
MaxSubsets == 3
\* largest number of protocols declared for one database
MaxProtocols == 2
\* longest list of path templates of a FileFinder configuration
MaxTemplates == 2
\* longest list of subset names declared for one protocol of a subset of "X"
MaxRefs == 2

(***************************************************************************)
(* Paths and the file system                                               *)
(*                                                                         *)
(* A path is [anchor, stem, suffix].  anchor "" is a relative path (probed *)
(* against the current directory), "/" an absolute one, "~" one that       *)
(* starts with the user's home marker, "home" the same path once           *)
(* expanded, and "cfg" a relative path joined to the directory of          *)
(* database.yml.  stem is a sequence of tokens: a token is a literal piece *)
(* of the file name or a "{name}" placeholder.  The file system is the set *)
(* of paths that are existing files.                                       *)
(***************************************************************************)
Anchors == {"", "/", "~", "home", "cfg"}

\* Path.expanduser()
expanduser(path) ==
    IF path.anchor = "~" THEN [path EXCEPT !.anchor = "home"] ELSE path

\* Path.is_absolute()
is_absolute(path) == path.anchor \in {"/", "home"}

\* database_yml.parent / path: joining an absolute path yields that path
parent_join(path) ==
    IF is_absolute(path) THEN path ELSE [path EXCEPT !.anchor = "cfg"]

\* Path.is_file() on file system files
is_file(path, files) == path \in files

\* resolve_path(path, database_yml): the probes made, in order, and either
\* the resolved path or FileNotFoundError
\* (faulty variant: the directory of database.yml is tried first)
resolve_path_wrong_order(path, files) ==
    LET p == expanduser(path)
        relative_path == parent_join(p)
    IN  IF is_file(relative_path, files)
        THEN [err |-> "none", path |-> relative_path, probed |-> <<relative_path>>]
        ELSE IF is_file(p, files)
        THEN [err |-> "none", path |-> p, probed |-> <<relative_path, p>>]
        ELSE [err |-> "FileNotFoundError", path |-> p, probed |-> <<relative_path, p>>]

resolve_path(path, files) ==
    LET p == expanduser(path)
        relative_path == parent_join(p)
    IN  IF is_file(p, files)
        THEN [err |-> "none", path |-> p, probed |-> <<p>>]
        ELSE IF is_file(relative_path, files)
        THEN [err |-> "none", path |-> relative_path, probed |-> <<p, relative_path>>]
        ELSE [err |-> "FileNotFoundError", path |-> p, probed |-> <<p, relative_path>>]

(***************************************************************************)
(* Identifier lists                                                        *)
(***************************************************************************)
Chars == {"a", " ", "\n"}
Whitespace == {" ", "\n"}

\* the contents a list file can have
Contents == UNION {[1..n -> Chars] : n \in 0..MaxContent}

\* fp.readlines(): the lines of the content, each with its terminator
RECURSIVE readlines_from(_, _, _)
readlines_from(content, i, cur) ==
    IF i > Len(content)
    THEN IF cur = <<>> THEN <<>> ELSE <<cur>>
    ELSE IF content[i] = "\n"
         THEN <<Append(cur, "\n")>> \o readlines_from(content, i + 1, <<>>)
         ELSE readlines_from(content, i + 1, Append(cur, content[i]))

readlines(content) == readlines_from(content, 1, <<>>)

\* str.strip(): drop leading and trailing whitespace
RECURSIVE lstrip(_)
lstrip(s) ==
    IF s # <<>> /\ Head(s) \in Whitespace THEN lstrip(Tail(s)) ELSE s

RECURSIVE rstrip(_)
rstrip(s) ==
    IF s # <<>> /\ s[Len(s)] \in Whitespace
    THEN rstrip(SubSeq(s, 1, Len(s) - 1))
    ELSE s

strip(s) == rstrip(lstrip(s))

\* load_lst(file_lst), given the content of the file
\* (faulty variant: the lines keep their whitespace)
load_lst_unstripped(content) == readlines(content)

load_lst(content) ==
    LET lines == readlines(content)
    IN  [i \in 1..Len(lines) |-> strip(lines[i])]


(***************************************************************************)
(* Loaders and templates                                                   *)
(***************************************************************************)
\* suffixes with a registered "pyannote.database.loader" entry point
LOADERS == {".rttm", ".uem"}

\* Path(value) of a declaration whose text is the marker "_" (when marker is
\* TRUE) followed by the text of path: the marker is part of the file name
PathOf(value) ==
    IF value.marker
    THEN [value.path EXCEPT !.stem = <<"_">> \o value.path.stem]
    ELSE value.path

\* template.format(**abs(current_file)): every "{name}" token is replaced by
\* the record's field of that name; a name the record lacks is a KeyError
RECURSIVE format_stem(_, _)
format_stem(stem, current_file) ==
    IF stem = <<>> THEN <<>>
    ELSE LET tok == Head(stem)
             piece == IF tok = "{uri}" THEN current_file.uri
                      ELSE IF tok = "{database}" THEN <<current_file.database>>
                      ELSE IF tok = "{subset}" THEN <<current_file.subset>>
                      ELSE <<tok>>
         IN  piece \o format_stem(Tail(stem), current_file)

format_ok(template) ==
    \A i \in 1..Len(template.stem) : template.stem[i] # "{channel}"

format(template, current_file) ==
    [template EXCEPT !.stem = format_stem(template.stem, current_file)]

\* Loader(path)(current_file): what the suffix's loader returns
Loaded(path, current_file) == [from |-> path, uri |-> current_file.uri]

\* Template(template, database_yml): ValueError when the suffix has no
\* loader, else the deferred loader `load`
Template(template) ==
    IF template.suffix \notin LOADERS
    THEN [err |-> "ValueError", loader |-> [kind |-> "none", path |-> template]]
    ELSE [err |-> "none", loader |-> [kind |-> "Template", path |-> template]]

\* load(current_file) of a Template: substitute, resolve, check, load
Template_load(template, current_file, files) ==
    IF ~format_ok(template)
    THEN [err |-> "KeyError", probed |-> <<>>, value |-> <<>>]
    ELSE LET r == resolve_path(format(template, current_file), files)
         IN  IF r.err # "none"
             THEN [err |-> r.err, probed |-> r.probed, value |-> <<>>]
             ELSE IF ~is_file(r.path, files)
             THEN [err |-> "FileNotFoundError", probed |-> Append(r.probed, r.path),
                   value |-> <<>>]
             ELSE [err |-> "none", probed |-> Append(r.probed, r.path),
                   value |-> <<Loaded(r.path, current_file)>>]

(***************************************************************************)
(* subset_iter                                                             *)
(*                                                                         *)
(* entries is the subset's mapping in declaration order: a sequence of     *)
(* [key, value] with distinct keys.                                        *)
(***************************************************************************)
KeysOf(ents) == {ents[i].key : i \in 1..Len(ents)}

Get(ents, key) == ents[CHOOSE i \in 1..Len(ents) : ents[i].key = key].value

\* lines 215-228: the entry that names the identifier list
SelectUri(ents) ==
    IF "uri" \in KeysOf(ents)
    THEN [err |-> "none", uri |-> <<Get(ents, "uri")>>, warnings |-> <<>>]
    ELSE IF "uris" \in KeysOf(ents)
    THEN [err |-> "none", uri |-> <<Get(ents, "uris")>>,
          warnings |-> <<"DeprecationWarning">>]
    ELSE [err |-> "ValueError", uri |-> <<>>, warnings |-> <<>>]

\* the probes a declaration caused, tagged with its key
Tag(key, paths) == {[key |-> key, path |-> paths[i]] : i \in 1..Len(paths)}

SetLazy(lazy, key, loader) ==
    [k \in DOMAIN lazy \cup {key} |-> IF k = key THEN loader ELSE lazy[k]]

\* lines 239-240: a value that starts with the marker binds a Template
SetupDeferred(key, template, st) ==
    LET t == Template(template)
    IN  IF t.err # "none"
        THEN [st EXCEPT !.err = t.err]
        ELSE [st EXCEPT !.lazy = SetLazy(@, key, t.loader)]

\* lines 242-267: any other value is resolved, checked and loaded at once
SetupEager(key, path, files, st) ==
    LET r == resolve_path(path, files)
    IN  IF r.err # "none"
        THEN [st EXCEPT !.probes = @ \cup Tag(key, r.probed), !.err = r.err]
        ELSE IF ~is_file(r.path, files)
        THEN [st EXCEPT !.probes = @ \cup Tag(key, Append(r.probed, r.path)),
                        !.err = "FileNotFoundError"]
        ELSE IF r.path.suffix \notin LOADERS
        THEN [st EXCEPT !.probes = @ \cup Tag(key, Append(r.probed, r.path)),
                        !.err = "TypeError"]
        ELSE [st EXCEPT !.probes = @ \cup Tag(key, Append(r.probed, r.path)),
                        !.lazy = SetLazy(@, key, [kind |-> "Loader", path |-> r.path])]

\* lines 239-267: one declared field
\* (faulty variant: the marker is stripped but the field is set up at once)
SetupField_ignores_marker(key, value, files, st) ==
    SetupEager(key, value.path, files, st)

SetupField(key, value, files, st) ==
    IF value.marker
    THEN SetupDeferred(key, value.path, st)
    ELSE SetupEager(key, PathOf(value), files, st)

\* lines 234-267: every declared entry but "uri", in declaration order,
\* stopping at the first one that raises
RECURSIVE SetupFields(_, _, _, _)
SetupFields(ents, i, files, st) ==
    IF i > Len(ents) \/ st.err # "none" THEN st
    ELSE IF ents[i].key = "uri"
    THEN SetupFields(ents, i + 1, files, st)
    ELSE SetupFields(ents, i + 1, files,
                     SetupField(ents[i].key, ents[i].value, files, st))

\* lines 215-267: what runs before the first record, given the content read
\* from the list file: [err, read, uris, lazy, probes, warnings]
Setup(ents, files, content) ==
    LET sel == SelectUri(ents)
    IN  IF sel.err # "none"
        THEN [err |-> sel.err, read |-> FALSE, uris |-> <<>>, lazy |-> <<>>,
              probes |-> {}, warnings |-> sel.warnings]
        ELSE LET r == resolve_path(PathOf(sel.uri[1]), files)
             IN  IF r.err # "none"
                 THEN [err |-> r.err, read |-> FALSE, uris |-> <<>>, lazy |-> <<>>,
                       probes |-> Tag("uri", r.probed), warnings |-> sel.warnings]
                 ELSE LET st == SetupFields(ents, 1, files,
                                    [err |-> "none", lazy |-> <<>>,
                                     probes |-> Tag("uri", r.probed)])
                      IN  [err |-> st.err, read |-> TRUE,
                           uris |-> load_lst(content), lazy |-> st.lazy,
                           probes |-> st.probes, warnings |-> sel.warnings]

\* lines 270-272: the record yielded for one identifier
ProtocolFile(uri, db, sub, lazy) ==
    [uri |-> uri, database |-> db, subset |-> sub, lazy |-> lazy]

\* file[key] for a lazy key of a yielded record: the record calls the loader
\* bound to the key with itself
LazyGet(current_file, key, files) ==
    LET loader == current_file.lazy[key]
    IN  IF loader.kind = "Template"
        THEN Template_load(loader.path, current_file, files)
        ELSE [err |-> "none", probed |-> <<>>,
              value |-> <<Loaded(loader.path, current_file)>>]

(***************************************************************************)
(* create_protocol                                                         *)
(*                                                                         *)
(* protocol_entries is the protocol's mapping in declaration order: a      *)
(* sequence of [subset, entries].  A method name is <<subset, "_iter">>.   *)
(***************************************************************************)
\* the classes defined by the protocol module, as <<task, "Protocol">>
ProtocolModule ==
    { <<"Protocol">>, <<"Collection", "Protocol">>,
      <<"SpeakerDiarization", "Protocol">>, <<"SpeakerVerification", "Protocol">> }

\* line 308: the name looked up in the protocol module
BaseClassName(task) == IF task = "Protocol" THEN <<"Protocol">> ELSE <<task, "Protocol">>

RecognizedSubsets == {"files", "train", "development", "test"}

SetMethod(methods, name, f) ==
    [m \in DOMAIN methods \cup {name} |-> IF m = name THEN f ELSE methods[m]]

\* lines 343-362: the iterator bound to one subset
BoundIterator(db, task, protocol, sub, subset_entries) ==
    [func |-> IF db = "X" THEN "meta_subset_iter" ELSE "subset_iter",
     database |-> db, task |-> task, protocol |-> protocol, subset |-> sub,
     entries |-> subset_entries]

\* lines 331-362: one pass of the loop over the declared subsets; st is
\* [methods, warnings]
\* (faulty variant: an unrecognized subset is reported but not skipped)
AddSubset_no_skip(db, task, protocol, sub, subset_entries, st) ==
    [methods |-> SetMethod(st.methods, <<sub, "_iter">>,
                           BoundIterator(db, task, protocol, sub, subset_entries)),
     warnings |-> IF sub \notin RecognizedSubsets
                  THEN Append(st.warnings, [category |-> "UserWarning", subset |-> sub])
                  ELSE st.warnings]

AddSubset(db, task, protocol, sub, subset_entries, st) ==
    IF sub \notin RecognizedSubsets
    THEN [st EXCEPT !.warnings = Append(@, [category |-> "UserWarning", subset |-> sub])]
    ELSE [st EXCEPT !.methods = SetMethod(@, <<sub, "_iter">>,
                                   BoundIterator(db, task, protocol, sub, subset_entries))]

RECURSIVE AddSubsets(_, _, _, _, _, _)
AddSubsets(db, task, protocol, protocol_entries, i, st) ==
    IF i > Len(protocol_entries) THEN st
    ELSE AddSubsets(db, task, protocol, protocol_entries, i + 1,
                    AddSubset(db, task, protocol, protocol_entries[i].subset,
                              protocol_entries[i].entries, st))

\* create_protocol(database, task, protocol, protocol_entries, database_yml):
\* type is <<the new class>>, or <<>> for None; warnings are those emitted
create_protocol(db, task, protocol, protocol_entries) ==
    IF BaseClassName(task) \notin ProtocolModule
    THEN [type |-> <<>>, warnings |-> <<>>]
    ELSE LET wrapped == IF task = "Collection"
                        THEN <<[subset |-> "files", entries |-> protocol_entries]>>
                        ELSE protocol_entries
             st == AddSubsets(db, task, protocol, wrapped, 1,
                              [methods |-> <<>>, warnings |-> <<>>])
         IN  [type |-> <<[name |-> protocol, base |-> BaseClassName(task),
                          methods |-> st.methods]>>,
              warnings |-> st.warnings]

(***************************************************************************)
(* add_custom_protocols                                                    *)
(*                                                                         *)
(* A mapping of databases is a sequence of [name, protocols]; protocols is *)
(* the database's tasks and protocols flattened in document order: a       *)
(* sequence of [task, protocol, entries].                                  *)
(***************************************************************************)
\* lines 384-386: pop "X" and insert it again, which moves it to the end
\* (faulty variant: "X" stays where the document has it)
MoveXLast_keeps_position(dbs) == dbs

MoveXLast(dbs) ==
    LET IsX(d) == d.name = "X"
        NotX(d) == d.name # "X"
    IN  SelectSeq(dbs, NotX) \o SelectSeq(dbs, IsX)

\* lines 400-408: record a synthesized protocol; reg is [protocols, TASKS]
\* (faulty variant: a protocol is recorded even when synthesis gave None)
RegisterProtocol_records_none(reg, db, task, protocol, CustomProtocol) ==
    [protocols |-> [reg.protocols EXCEPT ![db] =
                       Append(@, [task |-> task, protocol |-> protocol,
                                  type |-> CustomProtocol])],
     TASKS |-> [t \in DOMAIN reg.TASKS \cup {task} |->
                   IF t = task
                   THEN (IF t \in DOMAIN reg.TASKS THEN reg.TASKS[t] ELSE {}) \cup {db}
                   ELSE reg.TASKS[t]]]

RegisterProtocol(reg, db, task, protocol, CustomProtocol) ==
    IF CustomProtocol = <<>>
    THEN reg
    ELSE [protocols |-> [reg.protocols EXCEPT ![db] =
                            Append(@, [task |-> task, protocol |-> protocol,
                                       type |-> CustomProtocol])],
          TASKS |-> [t \in DOMAIN reg.TASKS \cup {task} |->
                        IF t = task
                        THEN (IF t \in DOMAIN reg.TASKS THEN reg.TASKS[t] ELSE {}) \cup {db}
                        ELSE reg.TASKS[t]]]

\* lines 411-413: the database class, whose __init__ registers the protocols
DatabaseType(db, db_protocols) ==
    [name |-> db, base |-> "Database", registers |-> db_protocols]

(***************************************************************************)
(* FileFinder                                                              *)
(*                                                                         *)
(* A path template is [dir, name]: dir is a directory name, "*" or the     *)
(* placeholder "{database}"; name is a file name or the placeholder        *)
(* "{uri}".  A configuration is [kind, templates, items] with kind "str"   *)
(* (one template), "list" (a list of templates) or "dict" (items: a        *)
(* sequence of [key, value], value a "str" or "list" configuration).       *)
(***************************************************************************)
\* the value of a missing `uri` or `database`
None == "<None>"

\* str.format of a value: None prints as "None"
Str(v) == IF v = None THEN "None" ELSE v

\* path_template.format(uri=uri, database=database)
format_template(path_template, uri, db) ==
    [dir |-> IF path_template.dir = "{database}" THEN Str(db) ELSE path_template.dir,
     name |-> IF path_template.name = "{uri}" THEN Str(uri) ELSE path_template.name]

RECURSIVE SeqOfSet(_)
SeqOfSet(S) ==
    IF S = {} THEN <<>>
    ELSE LET x == CHOOSE y \in S : TRUE IN <<x>> \o SeqOfSet(S \ {x})

\* glob(path): the existing files the pattern matches, each once
glob(path, files) ==
    SeqOfSet({f \in files : (path.dir = "*" \/ path.dir = f.dir) /\ path.name = f.name})

RECURSIVE FindList(_, _, _, _, _)
FindList(templates, i, uri, db, files) ==
    IF i > Len(templates) THEN <<>>
    ELSE glob(format_template(templates[i], uri, db), files)
         \o FindList(templates, i + 1, uri, db, files)

\* _find on a configuration that is not a mapping (lines 93-99, 120-124)
FindFlat(config, uri, db, files) ==
    IF config.kind = "list"
    THEN FindList(config.templates, 1, uri, db, files)
    ELSE glob(format_template(config.templates[1], uri, db), files)

ItemKeys(config) == {config.items[i].key : i \in 1..Len(config.items)}

ItemOf(config, key) ==
    config.items[CHOOSE i \in 1..Len(config.items) : config.items[i].key = key].value

\* lines 107-112: the databases a mapping is searched in
SelectDatabases(config, db) ==
    IF db = None \/ db \notin ItemKeys(config)
    THEN [i \in 1..Len(config.items) |-> config.items[i].key]
    ELSE <<db>>

RECURSIVE FindDatabases(_, _, _, _, _)
FindDatabases(config, dbs, i, uri, files) ==
    IF i > Len(dbs) THEN <<>>
    ELSE FindFlat(ItemOf(config, dbs[i]), uri, dbs[i], files)
         \o FindDatabases(config, dbs, i + 1, uri, files)

\* FileFinder._find(config, uri, database)
_find(config, uri, db, files) ==
    IF config.kind = "dict"
    THEN FindDatabases(config, SelectDatabases(config, db), 1, uri, files)
    ELSE FindFlat(config, uri, db, files)

\* FileFinder.__call__(current_file) for a `uri` that is not a list
FileFinder_call(config, current_file, files) ==
    LET found == _find(config, current_file.uri, current_file.database, files)
    IN  IF Len(found) = 1
        THEN [status |-> "returned", path |-> <<found[1]>>, n |-> 1]
        ELSE IF Len(found) = 0
        THEN [status |-> "Could not find file", path |-> <<>>, n |-> 0]
        ELSE [status |-> "Found n matches", path |-> <<>>, n |-> Len(found)]

(***************************************************************************)
(* State                                                                   *)
(***************************************************************************)
VARIABLES
    fs,         \* the paths that are existing files
    \* one run of a generated {subset}_iter method
    entries,    \* subset_iter: entries
    database,   \* subset_iter: database
    subset,     \* subset_iter: subset
    pc,         \* the generator: "created", "suspended", "done", "failed"
    lst,        \* the content read from the identifier list file
    uris,       \* subset_iter: uris
    lazy_loader,\* subset_iter: lazy_loader
    yielded,    \* the records yielded so far
    err,        \* the exception that ended the generator, or "none"
    warnings,   \* the categories of the warnings emitted, in order
    probes,     \* the [key, path] existence probes the generator made
    access,     \* the last field access on a yielded record, if any
    \* one call of resolve_path, create_protocol or FileFinder.__call__
    call,       \* [fn, args, state, result]
    \* one run of add_custom_protocols
    config,     \* the "Protocols" mapping of the document
    databases,  \* add_custom_protocols: databases
    position,   \* [at, db, item]: where the loops at lines 390-413 stand
    protocols,  \* add_custom_protocols: protocols
    DATABASES,  \* the registry of database classes
    TASKS,      \* the registry of the databases of each task
    log,        \* what was processed so far, in order
    \* one run of a {subset}_iter method of the database "X"
    lists,      \* the content of each identifier list file
    meta,       \* the meta_subset_iter generator: its arguments and frame
    reads       \* the identifier list files read so far, in order

iterVars == <<entries, database, subset, pc, lst, uris, lazy_loader,
              yielded, err, warnings, probes, access>>

regVars == <<config, databases, position, protocols, DATABASES, TASKS, log>>

metaVars == <<lists, meta, reads>>

vars == <<fs, iterVars, call, regVars, metaVars>>

NoAccess == [index |-> 0, key |-> "", err |-> "none", probed |-> <<>>, value |-> <<>>]

NoCall == [fn |-> "", args |-> <<>>, state |-> "idle", result |-> <<>>]

\* the parts of the state a specification leaves unused
IterIdle ==
    /\ entries = <<>> /\ database = "" /\ subset = ""
    /\ pc = "idle" /\ lst = <<>> /\ uris = <<>> /\ lazy_loader = <<>>
    /\ yielded = <<>> /\ err = "none" /\ warnings = <<>> /\ probes = {}
    /\ access = NoAccess

RegIdle ==
    /\ config = <<>> /\ databases = <<>>
    /\ position = [at |-> "idle", db |-> 0, item |-> 0]
    /\ protocols = <<>> /\ DATABASES = <<>> /\ TASKS = <<>> /\ log = <<>>

MetaIdle ==
    /\ lists = <<>> /\ meta = <<>> /\ reads = <<>>

(***************************************************************************)
(* subset_iter: inputs                                                     *)
(***************************************************************************)
ListPath == [anchor |-> "", stem |-> <<"list">>, suffix |-> ".lst"]

FieldValues ==
    { [marker |-> FALSE, path |-> [anchor |-> "", stem |-> <<"ann">>, suffix |-> ".rttm"]],
      [marker |-> FALSE, path |-> [anchor |-> "", stem |-> <<"ann">>, suffix |-> ".xyz"]],
      [marker |-> TRUE, path |-> [anchor |-> "", stem |-> <<"{uri}">>, suffix |-> ".rttm"]],
      [marker |-> TRUE, path |-> [anchor |-> "", stem |-> <<"{uri}">>, suffix |-> ".xyz"]] }

Fields ==
    {[key |-> k, value |-> [marker |-> FALSE, path |-> ListPath]] : k \in {"uri", "uris"}}
    \cup {[key |-> k, value |-> v] : k \in {"annotation", "annotated"}, v \in FieldValues}

EntriesSet ==
    {e \in UNION {[1..n -> Fields] : n \in 0..MaxFields} :
        \A i, j \in 1..Len(e) : i # j => e[i].key # e[j].key}

\* the files that may exist: the list in the current directory, the others
\* beside database.yml
IterFiles ==
    { ListPath,
      [anchor |-> "cfg", stem |-> <<"ann">>, suffix |-> ".rttm"],
      [anchor |-> "cfg", stem |-> <<"ann">>, suffix |-> ".xyz"],
      [anchor |-> "cfg", stem |-> <<"a">>, suffix |-> ".rttm"] }

Bindings == {<<"DatabaseA", "train">>, <<"DatabaseB", "test">>}

Init ==
    /\ entries \in EntriesSet
    /\ \E b \in Bindings : database = b[1] /\ subset = b[2]
    /\ fs \in SUBSET IterFiles
    /\ pc = "created"
    /\ lst = <<>>
    /\ uris = <<>>
    /\ lazy_loader = <<>>
    /\ yielded = <<>>
    /\ err = "none"
    /\ warnings = <<>>
    /\ probes = {}
    /\ access = NoAccess
    /\ call = NoCall
    /\ RegIdle
    /\ MetaIdle

(***************************************************************************)
(* subset_iter: actions                                                    *)
(***************************************************************************)
\* the first next(): lines 215-267, then the first pass of the loop at 269
SubsetIterStart ==
    /\ pc = "created"
    /\ \E content \in Contents :
         LET out == Setup(entries, fs, content)
         IN  /\ lst' = IF out.read THEN content ELSE <<>>
             /\ uris' = out.uris
             /\ lazy_loader' = out.lazy
             /\ err' = out.err
             /\ warnings' = warnings \o out.warnings
             /\ probes' = out.probes
             /\ IF out.err # "none"
                THEN pc' = "failed" /\ yielded' = <<>>
                ELSE IF out.uris = <<>>
                THEN pc' = "done" /\ yielded' = <<>>
                ELSE /\ pc' = "suspended"
                     /\ yielded' = <<ProtocolFile(out.uris[1], database, subset, out.lazy)>>
    /\ UNCHANGED <<entries, database, subset, fs, access, call, regVars, metaVars>>

\* a later next(): the next pass of the loop at 269, or its end
SubsetIterResume ==
    /\ pc = "suspended"
    /\ IF Len(yielded) < Len(uris)
       THEN /\ yielded' = Append(yielded,
                            ProtocolFile(uris[Len(yielded) + 1], database, subset,
                                         lazy_loader))
            /\ pc' = pc
       ELSE /\ yielded' = yielded
            /\ pc' = "done"
    /\ UNCHANGED <<entries, database, subset, fs, lst, uris, lazy_loader, err,
                   warnings, probes, access, call, regVars, metaVars>>

\* the consumer reads a lazy field of a record it was given
AccessField ==
    /\ \E i \in 1..Len(yielded) : \E key \in DOMAIN yielded[i].lazy :
         LET r == LazyGet(yielded[i], key, fs)
         IN  access' = [index |-> i, key |-> key, err |-> r.err,
                        probed |-> r.probed, value |-> r.value]
    /\ UNCHANGED <<entries, database, subset, fs, pc, lst, uris, lazy_loader,
                   yielded, err, warnings, probes, call, regVars, metaVars>>

Next == SubsetIterStart \/ SubsetIterResume \/ AccessField

Spec == Init /\ [][Next]_vars

(***************************************************************************)
(* resolve_path: one call on any path and file system                      *)
(***************************************************************************)
ResolvePaths ==
    {[anchor |-> a, stem |-> <<n>>, suffix |-> ".rttm"] : a \in {"", "/", "~"}, n \in {"f", "g"}}

\* the files that may exist: f in the current directory, at the root, in the
\* home directory, beside database.yml, and in a directory named "~"
ResolveFiles ==
    {[anchor |-> a, stem |-> <<"f">>, suffix |-> ".rttm"] : a \in Anchors}

InitResolve ==
    /\ fs \in SUBSET ResolveFiles
    /\ \E path \in ResolvePaths :
         call = [fn |-> "resolve_path", args |-> <<path>>, state |-> "called",
                 result |-> <<>>]
    /\ IterIdle
    /\ RegIdle
    /\ MetaIdle

ResolvePath ==
    /\ call.fn = "resolve_path"
    /\ call.state = "called"
    /\ LET r == resolve_path(call.args[1], fs)
       IN  call' = [call EXCEPT !.state = IF r.err = "none" THEN "returned" ELSE "raised",
                                !.result = <<r>>]
    /\ UNCHANGED <<fs, iterVars, regVars, metaVars>>

NextResolve == ResolvePath

SpecResolve == InitResolve /\ [][NextResolve]_vars

(***************************************************************************)
(* create_protocol: one call on any protocol                               *)
(***************************************************************************)
TaskNames == {"SpeakerDiarization", "Collection", "Protocol", "Segmentation"}

SubsetNames == {"files", "train", "development", "test", "valid", "eval"}

\* protocol_entries: distinct subset keys in any order, each with its own
\* entries
ProtocolEntriesSet ==
    {[i \in 1..Len(ks) |-> [subset |-> ks[i], entries |-> <<ks[i], ".lst">>]] :
        ks \in {k \in UNION {[1..n -> SubsetNames] : n \in 0..MaxSubsets} :
                   \A i, j \in 1..Len(k) : i # j => k[i] # k[j]}}

InitCreate ==
    /\ fs = {}
    /\ \E db \in {"MyDatabase", "X"} : \E task \in TaskNames :
         \E protocol_entries \in ProtocolEntriesSet :
           call = [fn |-> "create_protocol",
                   args |-> <<db, task, "MyProtocol", protocol_entries>>,
                   state |-> "called", result |-> <<>>]
    /\ IterIdle
    /\ RegIdle
    /\ MetaIdle

CreateProtocol ==
    /\ call.fn = "create_protocol"
    /\ call.state = "called"
    /\ call' = [call EXCEPT !.state = "returned",
                            !.result = <<create_protocol(call.args[1], call.args[2],
                                                         call.args[3], call.args[4])>>]
    /\ UNCHANGED <<fs, iterVars, regVars, metaVars>>

NextCreate == CreateProtocol

SpecCreate == InitCreate /\ [][NextCreate]_vars

(***************************************************************************)
(* FileFinder: one call with a `uri` that is not a list                    *)
(***************************************************************************)
FinderTemplates ==
    {[dir |-> d, name |-> "{uri}"] : d \in {"d1", "*", "{database}"}}

FlatConfigs ==
    {[kind |-> "str", templates |-> <<t>>, items |-> <<>>] : t \in FinderTemplates}
    \cup {[kind |-> "list", templates |-> ts, items |-> <<>>] :
            ts \in {t \in UNION {[1..n -> FinderTemplates] : n \in 0..MaxTemplates} :
                       \A i, j \in 1..Len(t) : i # j => t[i] # t[j]}}

FinderDatabases == {"A", "B"}

DictConfigs ==
    {[kind |-> "dict", templates |-> <<>>, items |-> its] :
        its \in {it \in UNION {[1..n -> [key : FinderDatabases, value : FlatConfigs]] :
                                  n \in 1..Cardinality(FinderDatabases)} :
                    \A i, j \in 1..Len(it) : i # j => it[i].key # it[j].key}}

FinderFiles == {[dir |-> d, name |-> "u"] : d \in {"d1", "A", "B"}}

InitFinder ==
    /\ fs \in SUBSET FinderFiles
    /\ \E cfg \in FlatConfigs \cup DictConfigs : \E db \in FinderDatabases \cup {None} :
         call = [fn |-> "FileFinder", args |-> <<cfg, [uri |-> "u", database |-> db]>>,
                 state |-> "called", result |-> <<>>]
    /\ IterIdle
    /\ RegIdle
    /\ MetaIdle

FileFinderCall ==
    /\ call.fn = "FileFinder"
    /\ call.state = "called"
    /\ LET r == FileFinder_call(call.args[1], call.args[2], fs)
       IN  call' = [call EXCEPT !.state = IF r.status = "returned" THEN "returned"
                                          ELSE "raised",
                                !.result = <<r>>]
    /\ UNCHANGED <<fs, iterVars, regVars, metaVars>>

NextFinder == FileFinderCall

SpecFinder == InitFinder /\ [][NextFinder]_vars

(***************************************************************************)
(* add_custom_protocols: one run on any document                           *)
(***************************************************************************)
DatabaseNames == {"A", "B", "X"}

RegTasks == {"SpeakerDiarization", "Segmentation"}

ProtocolNames == <<"P1", "P2", "P3", "P4">>

RegisterEntries ==
    << [subset |-> "train", entries |-> <<"train", ".lst">>],
       [subset |-> "valid", entries |-> <<"valid", ".lst">>] >>

\* the tasks and protocols of one database, flattened: the protocols of one
\* task are adjacent
DbProtocolsSet ==
    {[i \in 1..Len(ts) |-> [task |-> ts[i], protocol |-> ProtocolNames[i],
                            entries |-> RegisterEntries]] :
        ts \in {t \in UNION {[1..n -> RegTasks] : n \in 0..MaxProtocols} :
                   \A i, j, k \in 1..Len(t) :
                      (i < j /\ j < k /\ t[i] = t[k]) => t[j] = t[i]}}

ConfigSet ==
    {c \in UNION {[1..n -> [name : DatabaseNames, protocols : DbProtocolsSet]] :
                     n \in 0..Cardinality(DatabaseNames)} :
        \A i, j \in 1..Len(c) : i # j => c[i].name # c[j].name}

InitRegister ==
    /\ fs = {}
    /\ config \in ConfigSet
    /\ databases = <<>>
    /\ position = [at |-> "load", db |-> 0, item |-> 0]
    /\ protocols = <<>>
    /\ DATABASES = <<>>
    /\ TASKS = <<>>
    /\ log = <<>>
    /\ call = NoCall
    /\ IterIdle
    /\ MetaIdle

Event(op, db, task, protocol) ==
    [op |-> op, database |-> db, task |-> task, protocol |-> protocol]

\* lines 370-388
LoadConfig ==
    /\ position.at = "load"
    /\ databases' = MoveXLast(config)
    /\ protocols' = <<>>
    /\ position' = [at |-> "database", db |-> 1, item |-> 0]
    /\ UNCHANGED <<fs, iterVars, call, metaVars, config, DATABASES, TASKS, log>>

\* lines 390-392
EnterDatabase ==
    /\ position.at = "database"
    /\ position.db <= Len(databases)
    /\ LET name == databases[position.db].name
       IN  /\ protocols' = [d \in DOMAIN protocols \cup {name} |->
                               IF d = name THEN <<>> ELSE protocols[d]]
           /\ log' = Append(log, Event("enter", name, "", ""))
    /\ position' = [position EXCEPT !.at = "protocol", !.item = 1]
    /\ UNCHANGED <<fs, iterVars, call, metaVars, config, databases, DATABASES, TASKS>>

\* lines 395-408
ProcessProtocol ==
    /\ position.at = "protocol"
    /\ position.item <= Len(databases[position.db].protocols)
    /\ LET name == databases[position.db].name
           it == databases[position.db].protocols[position.item]
           made == create_protocol(name, it.task, it.protocol, it.entries)
           reg == RegisterProtocol([protocols |-> protocols, TASKS |-> TASKS],
                                   name, it.task, it.protocol, made.type)
       IN  /\ protocols' = reg.protocols
           /\ TASKS' = reg.TASKS
           /\ log' = Append(log, Event("protocol", name, it.task, it.protocol))
    /\ position' = [position EXCEPT !.item = @ + 1]
    /\ UNCHANGED <<fs, iterVars, call, metaVars, config, databases, DATABASES>>

\* lines 411-413
FinishDatabase ==
    /\ position.at = "protocol"
    /\ position.item > Len(databases[position.db].protocols)
    /\ LET name == databases[position.db].name
       IN  /\ DATABASES' = [d \in DOMAIN DATABASES \cup {name} |->
                               IF d = name THEN DatabaseType(name, protocols[name])
                               ELSE DATABASES[d]]
           /\ log' = Append(log, Event("database", name, "", ""))
    /\ position' = [position EXCEPT !.at = "database", !.db = @ + 1, !.item = 0]
    /\ UNCHANGED <<fs, iterVars, call, metaVars, config, databases, protocols, TASKS>>

\* line 415
Return ==
    /\ position.at = "database"
    /\ position.db > Len(databases)
    /\ position' = [position EXCEPT !.at = "returned"]
    /\ UNCHANGED <<fs, iterVars, call, metaVars, config, databases, protocols, DATABASES,
                   TASKS, log>>

NextRegister ==
    LoadConfig \/ EnterDatabase \/ ProcessProtocol \/ FinishDatabase \/ Return

SpecRegister == InitRegister /\ [][NextRegister]_vars

(***************************************************************************)
(* meta_subset_iter: one run of a {subset}_iter method of the database "X" *)
(*                                                                         *)
(* subset_entries is the subset's mapping in declaration order: a sequence *)
(* of [protocol, subsets], subsets being a list of subset names.  The      *)
(* generator is [method, pc, protocol, subset, file_iter, yielded, err]:   *)
(* protocol and subset are the positions of the loops at lines 182 and     *)
(* 184, file_iter is <<the generator the loop at line 186 runs over>> or   *)
(* <<>> between two of them.                                               *)
(***************************************************************************)
\* the identifier list of a subset of a registered protocol
MetaListPath(db, sub) == [anchor |-> "", stem |-> <<db, sub>>, suffix |-> ".lst"]

MetaUri(db, sub) == [key |-> "uri", value |-> [marker |-> FALSE, path |-> MetaListPath(db, sub)]]

MetaAnnotation ==
    [key |-> "annotation",
     value |-> [marker |-> TRUE,
                path |-> [anchor |-> "", stem |-> <<"{uri}">>, suffix |-> ".rttm"]]]

\* the protocols registered before "X" is processed, by name
Registered ==
    [name \in {"A.SpeakerDiarization.P", "B.SpeakerDiarization.Q"} |->
        IF name = "A.SpeakerDiarization.P"
        THEN create_protocol("A", "SpeakerDiarization", "P",
                 << [subset |-> "train",
                     entries |-> <<MetaUri("A", "train"), MetaAnnotation>>],
                    [subset |-> "development",
                     entries |-> <<MetaUri("A", "development")>>] >>).type[1]
        ELSE create_protocol("B", "SpeakerDiarization", "Q",
                 << [subset |-> "train",
                     entries |-> <<MetaUri("B", "train")>>] >>).type[1]]

\* get_protocol(protocol): the registered protocol of that name
get_protocol(protocol) == Registered[protocol]

\* getattr(partial_protocol, method_name)(): a new generator of the method
CallMethod(partial_protocol, method_name) ==
    [method |-> partial_protocol.methods[method_name], pc |-> "created",
     uris |-> <<>>, lazy_loader |-> <<>>, n |-> 0]

\* the content subset_iter reads from its identifier list
ListContent(ents, files, contents) ==
    LET sel == SelectUri(ents)
        r == resolve_path(PathOf(sel.uri[1]), files)
    IN  IF sel.err = "none" /\ r.err = "none" /\ r.path \in DOMAIN contents
        THEN contents[r.path] ELSE <<>>

\* the first next() of a subset_iter generator g inside the loop at 186
FileIterStart(m, g, rd, files, contents) ==
    LET ents == g.method.entries
        out == Setup(ents, files, ListContent(ents, files, contents))
        rd2 == IF out.read
               THEN Append(rd, [path |-> PathOf(SelectUri(ents).uri[1]),
                                by |-> <<g.method.database, g.method.subset>>])
               ELSE rd
    IN  IF out.err # "none"
        THEN [meta |-> [m EXCEPT !.pc = "failed", !.err = out.err, !.file_iter = <<>>],
              reads |-> rd2]
        ELSE [meta |-> [m EXCEPT !.file_iter =
                            <<[g EXCEPT !.pc = "suspended", !.uris = out.uris,
                                        !.lazy_loader = out.lazy]>>],
              reads |-> rd2]

\* a pass of the loop at 186: the next file is yielded as it is, or the
\* loop at 184 moves to the next subset
FileIterNext(m, g, rd) ==
    IF g.n < Len(g.uris)
    THEN [meta |-> [m EXCEPT !.pc = "suspended",
                             !.yielded = Append(@, ProtocolFile(g.uris[g.n + 1],
                                                    g.method.database, g.method.subset,
                                                    g.lazy_loader)),
                             !.file_iter = <<[g EXCEPT !.n = @ + 1]>>],
          reads |-> rd]
    ELSE [meta |-> [m EXCEPT !.file_iter = <<>>, !.subset = @ + 1], reads |-> rd]

\* lines 182-187: one step of the running generator m, rd being the reads
\* made so far
\* (faulty variant: a subset named twice for a protocol is iterated once)
MetaStep_once_per_subset(m, rd, files, contents) ==
    LET subset_entries == m.method.entries
    IN  IF m.file_iter # <<>>
        THEN IF m.file_iter[1].pc = "created"
             THEN FileIterStart(m, m.file_iter[1], rd, files, contents)
             ELSE FileIterNext(m, m.file_iter[1], rd)
        ELSE IF m.protocol > Len(subset_entries)
        THEN [meta |-> [m EXCEPT !.pc = "done"], reads |-> rd]
        ELSE LET protocol == subset_entries[m.protocol].protocol
                 subsets == subset_entries[m.protocol].subsets
             IN  IF m.subset > Len(subsets)
                 THEN [meta |-> [m EXCEPT !.protocol = @ + 1, !.subset = 1],
                       reads |-> rd]
                 ELSE IF \E j \in 1..(m.subset - 1) : subsets[j] = subsets[m.subset]
                 THEN [meta |-> [m EXCEPT !.subset = @ + 1], reads |-> rd]
                 ELSE [meta |-> [m EXCEPT !.file_iter =
                                    <<CallMethod(get_protocol(protocol),
                                                 <<subsets[m.subset], "_iter">>)>>],
                       reads |-> rd]

MetaStep(m, rd, files, contents) ==
    LET subset_entries == m.method.entries
    IN  IF m.file_iter # <<>>
        THEN IF m.file_iter[1].pc = "created"
             THEN FileIterStart(m, m.file_iter[1], rd, files, contents)
             ELSE FileIterNext(m, m.file_iter[1], rd)
        ELSE IF m.protocol > Len(subset_entries)
        THEN [meta |-> [m EXCEPT !.pc = "done"], reads |-> rd]
        ELSE LET protocol == subset_entries[m.protocol].protocol
                 subsets == subset_entries[m.protocol].subsets
             IN  IF m.subset > Len(subsets)
                 THEN [meta |-> [m EXCEPT !.protocol = @ + 1, !.subset = 1],
                       reads |-> rd]
                 ELSE [meta |-> [m EXCEPT !.file_iter =
                                    <<CallMethod(get_protocol(protocol),
                                                 <<subsets[m.subset], "_iter">>)>>],
                       reads |-> rd]

\* one next() of the generator: it runs until it yields, ends or raises
RECURSIVE meta_subset_iter(_, _, _)
meta_subset_iter(st, files, contents) ==
    IF st.meta.pc # "running" THEN st
    ELSE meta_subset_iter(MetaStep(st.meta, st.reads, files, contents), files, contents)

\* calling the generated method: the generator before its first next()
MetaGenerator(method) ==
    [method |-> method, pc |-> "created", protocol |-> 1, subset |-> 1,
     file_iter |-> <<>>, yielded |-> <<>>, err |-> "none"]

(***************************************************************************)
(* meta_subset_iter: inputs and actions                                    *)
(***************************************************************************)
\* the subsets a registered protocol defines
DefinedSubsets(name) == {m[1] : m \in DOMAIN Registered[name].methods}

MetaSubsetLists(name) ==
    UNION {[1..n -> DefinedSubsets(name)] : n \in 0..MaxRefs}

\* subset_entries: distinct registered protocols in any order, each with a
\* list of the subsets to draw from
MetaEntriesSet ==
    {e \in UNION {[1..n -> UNION {[protocol : {name}, subsets : MetaSubsetLists(name)] :
                                     name \in DOMAIN Registered}] :
                     n \in 0..Cardinality(DOMAIN Registered)} :
        \A i, j \in 1..Len(e) : i # j => e[i].protocol # e[j].protocol}

\* the identifier lists that may exist
MetaLists ==
    {MetaListPath("A", "train"), MetaListPath("A", "development"),
     MetaListPath("B", "train")}

\* what an identifier list may hold: no line, one line, two lines
MetaContents == {<<>>, <<"a">>, <<"\n", "a">>}

InitMeta ==
    /\ fs \in SUBSET MetaLists
    /\ lists \in [fs -> MetaContents]
    /\ \E meta_subset \in {"train", "development"} :
         \E subset_entries \in MetaEntriesSet :
           LET X == create_protocol("X", "SpeakerDiarization", "Meta",
                        <<[subset |-> meta_subset, entries |-> subset_entries]>>).type[1]
           IN  meta = MetaGenerator(X.methods[<<meta_subset, "_iter">>])
    /\ reads = <<>>
    /\ call = NoCall
    /\ IterIdle
    /\ RegIdle

\* the first next() on the generator
MetaIterStart ==
    /\ meta.pc = "created"
    /\ LET out == meta_subset_iter([meta |-> [meta EXCEPT !.pc = "running"],
                                    reads |-> reads], fs, lists)
       IN  meta' = out.meta /\ reads' = out.reads
    /\ UNCHANGED <<fs, lists, iterVars, call, regVars>>

\* a later next() on the generator
MetaIterResume ==
    /\ meta.pc = "suspended"
    /\ LET out == meta_subset_iter([meta |-> [meta EXCEPT !.pc = "running"],
                                    reads |-> reads], fs, lists)
       IN  meta' = out.meta /\ reads' = out.reads
    /\ UNCHANGED <<fs, lists, iterVars, call, regVars>>

NextMeta == MetaIterStart \/ MetaIterResume

SpecMeta == InitMeta /\ [][NextMeta]_vars

(***************************************************************************)
(* Properties of subset_iter (checked under Spec)                          *)
(***************************************************************************)
\* the path exists directly or relative to the directory of database.yml
Exists(path) == expanduser(path) \in fs \/ parent_join(expanduser(path)) \in fs

\* the number of lines of a text: one per newline, and one more for a last
\* line without newline
NLines(content) ==
    Cardinality({i \in 1..Len(content) : content[i] = "\n"})
    + (IF content # <<>> /\ content[Len(content)] # "\n" THEN 1 ELSE 0)

\* a declaration other than the identifier list is accepted: a deferred one
\* has a suffix with a loader, any other one also names an existing file
ValidField(e) ==
    /\ e.value.path.suffix \in LOADERS
    /\ ~e.value.marker => Exists(PathOf(e.value))

AllFieldsValid == \A i \in 1..Len(entries) : entries[i].key # "uri" => ValidField(entries[i])

FieldKeys == {"annotation", "annotated"}

\* C1: with `uri` naming an existing list file of N lines (and every other
\* declaration accepted), the generator yields exactly N records in file
\* order; record i carries line i stripped of surrounding whitespace (a blank
\* line gives an empty uri) and the database and subset of the method.
C1_RecordsFollowListFile ==
    (/\ pc # "created"
     /\ "uri" \in KeysOf(entries)
     /\ Exists(PathOf(Get(entries, "uri")))
     /\ AllFieldsValid)
    => LET lines == readlines(lst)
       IN  /\ pc \in {"suspended", "done"}
           /\ err = "none"
           /\ warnings = <<>>
           /\ Len(lines) = NLines(lst)
           /\ Len(yielded) <= Len(lines)
           /\ pc = "suspended" => Len(yielded) >= 1
           /\ pc = "done" => Len(yielded) = Len(lines)
           /\ \A i \in 1..Len(yielded) :
                /\ yielded[i].uri = strip(lines[i])
                /\ yielded[i].uri # <<>> =>
                     /\ Head(yielded[i].uri) \notin Whitespace
                     /\ yielded[i].uri[Len(yielded[i].uri)] \notin Whitespace
                /\ yielded[i].database = database
                /\ yielded[i].subset = subset

\* C1 witness: a list file whose first line is blank and whose second line
\* is "a" (without newline) has been iterated to the end
C1_Witness ==
    /\ pc = "done"
    /\ "uri" \in KeysOf(entries)
    /\ lst = <<"\n", "a">>
    /\ Len(yielded) = 2
    /\ yielded[1].uri = <<>>
    /\ yielded[2].uri = <<"a">>
    /\ yielded[2].database = database

\* the entries with the deprecated key renamed
Rename(ents) ==
    [i \in 1..Len(ents) |->
        IF ents[i].key = "uris" THEN [ents[i] EXCEPT !.key = "uri"] ELSE ents[i]]

\* C2: entries that name the list under `uris` behave as the same entries
\* with the key renamed to `uri` (same outcome, same records in the same
\* order), and the run emits exactly one DeprecationWarning.
C2_UrisSameAsUri ==
    (/\ pc # "created"
     /\ "uris" \in KeysOf(entries)
     /\ "uri" \notin KeysOf(entries))
    => LET ref == Setup(Rename(entries), fs, lst)
       IN  /\ warnings = <<"DeprecationWarning">>
           /\ err = ref.err
           /\ Len(yielded) <= Len(ref.uris)
           /\ pc = "done" => Len(yielded) = Len(ref.uris)
           /\ \A i \in 1..Len(yielded) :
                yielded[i] = ProtocolFile(ref.uris[i], database, subset, ref.lazy)

DeferredKeys ==
    {entries[i].key : i \in {j \in 1..Len(entries) :
                                entries[j].key \in FieldKeys /\ entries[j].value.marker}}

\* C4: the generator never probes or loads the file of a deferred field: it
\* only binds the unsubstituted template.  An access to the field on a
\* yielded record substitutes the record's fields, probes the substituted
\* path and loads it; the access fails with FileNotFoundError when the
\* substituted path exists in neither place, and the generator still yields
\* every record.
C4_DeferredUntilAccess ==
    /\ \A p \in probes : p.key \notin DeferredKeys
    /\ \A k \in DOMAIN lazy_loader \cap DeferredKeys :
         lazy_loader[k] = [kind |-> "Template", path |-> Get(entries, k).path]
    /\ (access.index > 0 /\ access.key \in DeferredKeys)
       => LET rec == yielded[access.index]
              path == [Get(entries, access.key).path EXCEPT !.stem = rec.uri]
          IN  /\ Get(entries, access.key).path.stem = <<"{uri}">>
              /\ access.probed # <<>>
              /\ access.probed[1] = path
              /\ IF Exists(path)
                 THEN /\ access.err = "none"
                      /\ access.value =
                           <<[from |-> IF path \in fs THEN path ELSE parent_join(path),
                              uri |-> rec.uri]>>
                 ELSE /\ access.err = "FileNotFoundError"
                      /\ access.value = <<>>
              /\ pc \in {"suspended", "done"}
              /\ err = "none"
              /\ pc = "done" => Len(yielded) = NLines(lst)

\* C4 witness: every record of a two-line list was yielded, and the access
\* to the deferred field of the second one failed because its file is missing
C4_Witness ==
    /\ pc = "done"
    /\ Len(yielded) = 2
    /\ access.index = 2
    /\ access.key \in DeferredKeys
    /\ access.err = "FileNotFoundError"

\* C5: a field declared without the marker whose path exists in neither place
\* makes the generator fail with FileNotFoundError before any record is
\* yielded, wherever the field stands among the entries (given that the
\* identifier list is declared and found and the entries before the field
\* are accepted).
C5_MissingEagerFieldFails ==
    pc # "created" =>
      \A i \in 1..Len(entries) :
        (/\ entries[i].key \in FieldKeys
         /\ ~entries[i].value.marker
         /\ ~Exists(PathOf(entries[i].value)))
        => /\ pc = "failed"
           /\ yielded = <<>>
           /\ (/\ \E k \in {"uri", "uris"} :
                    k \in KeysOf(entries) /\ Exists(PathOf(Get(entries, k)))
               /\ \A j \in 1..(i - 1) :
                    entries[j].key \in FieldKeys => ValidField(entries[j]))
              => err = "FileNotFoundError"

(***************************************************************************)
(* Properties of add_custom_protocols (checked under SpecRegister)         *)
(***************************************************************************)
NamesOf(dbs) == [i \in 1..Len(dbs) |-> dbs[i].name]

IsOther(name) == name # "X"

\* the databases whose class was written to DATABASES, in the order written
Written ==
    LET IsWrite(e) == e.op = "database"
        writes == SelectSeq(log, IsWrite)
    IN  [i \in 1..Len(writes) |-> writes[i].database]

\* C3: when the document declares "X" with other databases, every step on
\* another database (entering it, synthesizing its protocols, writing its
\* class to DATABASES) comes before every step on "X", wherever "X" stands in
\* the document, and the other databases are processed in document order.
C3_XProcessedLast ==
    /\ \A i, j \in 1..Len(log) :
         (log[i].database = "X" /\ log[j].database # "X") => j < i
    /\ LET others == SelectSeq(NamesOf(config), IsOther)
           done == SelectSeq(Written, IsOther)
       IN  /\ Len(done) <= Len(others)
           /\ done = SubSeq(others, 1, Len(done))
           /\ "X" \in DOMAIN DATABASES => Len(done) = Len(others)
    /\ position.at = "returned" =>
         DOMAIN DATABASES = {config[i].name : i \in 1..Len(config)}

\* C3 witness: the document lists "X" first and two other databases after
\* it, and the run has returned with "X" written last
C3_Witness ==
    /\ position.at = "returned"
    /\ Len(config) = 3
    /\ config[1].name = "X"
    /\ config[1].protocols # <<>>
    /\ Written = <<config[2].name, config[3].name, "X">>

Supported(task) == BaseClassName(task) \in ProtocolModule

\* C6: a protocol whose task has no base class is skipped without an error:
\* it is not recorded and does not add its task to TASKS, the other
\* protocols of the database are recorded in document order, and the
\* database is written to DATABASES.
C6_UnsupportedTaskSkipped ==
    /\ \A t \in DOMAIN TASKS : Supported(t)
    /\ position.at = "returned" =>
         /\ \A d \in 1..Len(config) :
              LET name == config[d].name
                  IsSupported(it) == Supported(it.task)
                  kept == SelectSeq(config[d].protocols, IsSupported)
              IN  /\ name \in DOMAIN DATABASES
                  /\ DATABASES[name].registers = protocols[name]
                  /\ Len(protocols[name]) = Len(kept)
                  /\ \A i \in 1..Len(kept) :
                       /\ protocols[name][i].task = kept[i].task
                       /\ protocols[name][i].protocol = kept[i].protocol
                       /\ protocols[name][i].type # <<>>
         /\ \A t \in RegTasks :
              LET declaring == {config[d].name : d \in
                                  {e \in 1..Len(config) :
                                     \E i \in 1..Len(config[e].protocols) :
                                        config[e].protocols[i].task = t}}
              IN  IF Supported(t) /\ declaring # {}
                  THEN t \in DOMAIN TASKS /\ TASKS[t] = declaring
                  ELSE t \notin DOMAIN TASKS

\* C6 witness: a database declares an unsupported task before a supported
\* one, and the run returned with only the second protocol recorded
C6_Witness ==
    /\ position.at = "returned"
    /\ \E d \in 1..Len(config) :
         /\ Len(config[d].protocols) = 2
         /\ ~Supported(config[d].protocols[1].task)
         /\ Supported(config[d].protocols[2].task)
         /\ Len(protocols[config[d].name]) = 1
         /\ protocols[config[d].name][1].protocol = config[d].protocols[2].protocol
         /\ config[d].name \in DOMAIN DATABASES

(***************************************************************************)
(* Properties of create_protocol (checked under SpecCreate)                *)
(***************************************************************************)
\* C7: a call of create_protocol with a task that has no base class returns
\* None and emits a warning.
C7_UnsupportedTaskWarns ==
    (/\ call.fn = "create_protocol"
     /\ call.state = "returned"
     /\ ~Supported(call.args[2]))
    => /\ call.result[1].type = <<>>
       /\ call.result[1].warnings # <<>>

\* C8: the synthesized class has one {subset}_iter method for each declared
\* subset that is recognized, bound to that subset and its entries, and none
\* for the others; each unrecognized subset gives one warning, in
\* declaration order, and synthesis goes on.  (The entries of a Collection
\* are those of its single subset "files".)
C8_UnrecognizedSubsetsSkipped ==
    (/\ call.fn = "create_protocol"
     /\ call.state = "returned"
     /\ Supported(call.args[2]))
    => LET db == call.args[1]
           task == call.args[2]
           pe == call.args[4]
           r == call.result[1]
           keys == [i \in 1..Len(pe) |-> pe[i].subset]
           IsUnrecognized(k) == k \notin RecognizedSubsets
           skipped == SelectSeq(keys, IsUnrecognized)
       IN  /\ r.type # <<>>
           /\ r.type[1].name = call.args[3]
           /\ IF task = "Collection"
              THEN /\ DOMAIN r.type[1].methods = {<<"files", "_iter">>}
                   /\ r.type[1].methods[<<"files", "_iter">>].entries = pe
                   /\ r.warnings = <<>>
              ELSE /\ DOMAIN r.type[1].methods =
                        {<<pe[i].subset, "_iter">> :
                           i \in {j \in 1..Len(pe) : pe[j].subset \in RecognizedSubsets}}
                   /\ \A i \in 1..Len(pe) :
                        pe[i].subset \in RecognizedSubsets =>
                          LET m == r.type[1].methods[<<pe[i].subset, "_iter">>]
                          IN  /\ m.subset = pe[i].subset
                              /\ m.entries = pe[i].entries
                              /\ m.database = db
                              /\ m.func = IF db = "X" THEN "meta_subset_iter"
                                          ELSE "subset_iter"
                   /\ Len(r.warnings) = Len(skipped)
                   /\ \A i \in 1..Len(skipped) : r.warnings[i].subset = skipped[i]

\* C8 witness: an unrecognized subset declared between two recognized ones
\* was skipped and both recognized ones got their method
C8_Witness ==
    /\ call.fn = "create_protocol"
    /\ call.state = "returned"
    /\ call.args[2] = "SpeakerDiarization"
    /\ Len(call.args[4]) = 3
    /\ call.args[4][1].subset = "train"
    /\ call.args[4][2].subset = "valid"
    /\ call.args[4][3].subset = "test"
    /\ DOMAIN call.result[1].type[1].methods = {<<"train", "_iter">>, <<"test", "_iter">>}
    /\ Len(call.result[1].warnings) = 1

(***************************************************************************)
(* Properties of FileFinder (checked under SpecFinder)                     *)
(***************************************************************************)
\* the templates searched for a query, each with the database it is
\* formatted with
Searched(cfg, db) ==
    IF cfg.kind = "dict"
    THEN LET keys == IF db # None /\ db \in ItemKeys(cfg) THEN {db} ELSE ItemKeys(cfg)
         IN  UNION {{[template |-> ItemOf(cfg, k).templates[i], database |-> k] :
                        i \in 1..Len(ItemOf(cfg, k).templates)} : k \in keys}
    ELSE {[template |-> cfg.templates[i], database |-> db] : i \in 1..Len(cfg.templates)}

\* the existing files one searched template expands to
Expansion(s, uri) ==
    {f \in fs : /\ f.name = Str(uri)
                /\ \/ s.template.dir = "*"
                   \/ s.template.dir = "{database}" /\ f.dir = Str(s.database)
                   \/ s.template.dir = f.dir}

\* C9: the call returns the single match when the union of the expansions of
\* the searched templates has exactly one entry, fails with the ambiguity
\* error when it has more, and with the not-found error when it is empty.
C9_SingleMatchOfUnion ==
    (call.fn = "FileFinder" /\ call.state # "called")
    => LET q == call.args[2]
           union == UNION {Expansion(t, q.uri) : t \in Searched(call.args[1], q.database)}
           r == call.result[1]
       IN  IF Cardinality(union) = 1
           THEN r.status = "returned" /\ r.path[1] \in union
           ELSE IF union = {}
           THEN r.status = "Could not find file"
           ELSE r.status = "Found n matches"

(***************************************************************************)
(* Properties of resolve_path (checked under SpecResolve)                  *)
(***************************************************************************)
\* C10: resolve_path returns the user-expanded path when it is an existing
\* file (even if the path relative to database.yml exists too, which is then
\* not probed), else the path joined to the directory of database.yml when
\* that is an existing file, else raises FileNotFoundError.
C10_ResolvePrecedence ==
    (call.fn = "resolve_path" /\ call.state # "called")
    => LET path == call.args[1]
           expanded == IF path.anchor = "~" THEN [path EXCEPT !.anchor = "home"]
                       ELSE path
           relative == IF expanded.anchor \in {"/", "home"} THEN expanded
                       ELSE [expanded EXCEPT !.anchor = "cfg"]
           r == call.result[1]
       IN  /\ r.probed[1] = expanded
           /\ IF expanded \in fs
              THEN /\ call.state = "returned"
                   /\ r.path = expanded
                   /\ r.probed = <<expanded>>
              ELSE IF relative \in fs
              THEN /\ call.state = "returned"
                   /\ r.path = relative
                   /\ r.probed = <<expanded, relative>>
              ELSE /\ call.state = "raised"
                   /\ r.err = "FileNotFoundError"

\* C10 witness: a relative path that exists only beside database.yml was
\* resolved to the path beside database.yml
C10_Witness ==
    /\ call.fn = "resolve_path"
    /\ call.state = "returned"
    /\ call.args[1].anchor = ""
    /\ call.args[1] \notin fs
    /\ call.result[1].path = [call.args[1] EXCEPT !.anchor = "cfg"]
    /\ call.result[1].path \in fs

(***************************************************************************)
(* Properties of meta_subset_iter (checked under SpecMeta)                 *)
(***************************************************************************)
\* the <<protocol, subset>> references of subset_entries e from its i-th
\* protocol on, in declaration order of protocols, then of subsets
RECURSIVE RefsFrom(_, _)
RefsFrom(e, i) ==
    IF i > Len(e) THEN <<>>
    ELSE [j \in 1..Len(e[i].subsets) |-> <<e[i].protocol, e[i].subsets[j]>>]
         \o RefsFrom(e, i + 1)

\* the database of a registered protocol
DatabaseOf(name) == IF name = "A.SpeakerDiarization.P" THEN "A" ELSE "B"

\* the identifier list behind a reference
RefList(ref) == MetaListPath(DatabaseOf(ref[1]), ref[2])

\* the record stream of the referenced protocol's {subset}_iter: one record
\* for each line of its identifier list
RefStream(ref) ==
    LET ids == load_lst(lists[RefList(ref)])
    IN  [n \in 1..Len(ids) |->
            [uri |-> ids[n], database |-> DatabaseOf(ref[1]), subset |-> ref[2],
             lazy |-> IF ref = <<"A.SpeakerDiarization.P", "train">>
                      THEN [k \in {"annotation"} |->
                               [kind |-> "Template", path |-> MetaAnnotation.value.path]]
                      ELSE <<>>]]

\* the references before the first one whose {subset}_iter raises
RECURSIVE Iterable(_)
Iterable(refs) ==
    IF refs = <<>> \/ RefList(Head(refs)) \notin fs THEN <<>>
    ELSE <<Head(refs)>> \o Iterable(Tail(refs))

RECURSIVE ConcatStreams(_)
ConcatStreams(refs) ==
    IF refs = <<>> THEN <<>> ELSE RefStream(Head(refs)) \o ConcatStreams(Tail(refs))

IsPrefix(s, t) == Len(s) <= Len(t) /\ \A n \in 1..Len(s) : s[n] = t[n]

\* C11: iterating a subset of "X" declared as a mapping from protocol names
\* to lists of subset names yields the concatenation of the record streams
\* of the referenced protocols' {subset}_iter, in declaration order of the
\* protocols and then of each protocol's subsets, with the records as the
\* referenced generators yield them and a subset named twice contributing
\* twice; the only identifier lists read are those of the referenced
\* subsets, one read for each reference iterated.
C11_MetaConcatenates ==
    LET refs == RefsFrom(meta.method.entries, 1)
        expected == ConcatStreams(Iterable(refs))
    IN  /\ meta.method.func = "meta_subset_iter"
        /\ IsPrefix(meta.yielded, expected)
        /\ meta.pc = "done" => (meta.yielded = ConcatStreams(refs) /\ Len(reads) = Len(refs))
        /\ Len(reads) <= Len(refs)
        /\ \A n \in 1..Len(reads) :
             /\ reads[n].path = RefList(refs[n])
             /\ reads[n].by = <<DatabaseOf(refs[n][1]), refs[n][2]>>

\* C11 witness: a run over two protocols, one of them with a non-empty
\* subset named twice, ended after yielding that subset's records twice.
C11_Witness ==
    /\ meta.pc = "done"
    /\ Len(meta.method.entries) = 2
    /\ \E i \in 1..2 :
         LET e == meta.method.entries[i]
         IN  /\ Len(e.subsets) = 2
             /\ e.subsets[1] = e.subsets[2]
             /\ Len(RefStream(<<e.protocol, e.subsets[1]>>)) = 2
    /\ Len(meta.yielded) >= 5
    /\ Len(reads) >= 3

=============================================================================
